---- MODULE Spec2Model ----
(***************************************************************************)
(* Seasonality dashboard (src/script.js): weekly bars are fetched, turned  *)
(* into a return series, filtered by the sign of the previous week's       *)
(* return, aggregated per week-of-year, rendered as text tables and sorted *)
(* by header clicks.                                                       *)
(*                                                                         *)
(* JavaScript numbers are binary floating point, rounded to nearest-even   *)
(* after every operation.  The model keeps that arithmetic and narrows the *)
(* significand from 53 bits to Precision bits; exponents are unbounded     *)
(* (prices are far from the overflow and underflow thresholds).            *)
(***************************************************************************)
EXTENDS Integers, Sequences, FiniteSets, TLC

\* ------------------------------------------------------------------------
\* Bounds of the model
\* ------------------------------------------------------------------------
\* Bits of significand kept by the floating-point model.
Precision == 5
\* Longest raw series a response carries in the pipeline specification.
MaxRows == 4

\* ------------------------------------------------------------------------
\* JavaScript Number: [k, m, e] is m * 2^e when k = "num" (m odd, or 0 with
\* e = 0), +/-Infinity when k = "inf" (sign in m), NaN when k = "nan".
\* ------------------------------------------------------------------------
Num(m, e) == [k |-> "num", m |-> m, e |-> e]
Inf(s) == [k |-> "inf", m |-> s, e |-> 0]
NaN == [k |-> "nan", m |-> 0, e |-> 0]
Zero == Num(0, 0)

Abs(i) == IF i < 0 THEN -i ELSE i
Sgn(i) == IF i < 0 THEN -1 ELSE IF i > 0 THEN 1 ELSE 0

RECURSIVE BitLen(_)
BitLen(n) == IF n = 0 THEN 0 ELSE 1 + BitLen(n \div 2)

\* The canonical form of m * 2^e: trailing zero bits move into the exponent.
RECURSIVE Norm(_, _)
Norm(m, e) ==
    IF m = 0 THEN Zero
    ELSE IF m % 2 = 0 THEN Norm(m \div 2, e + 1)
    ELSE Num(m, e)

\* Round the exact value M * 2^e to Precision significant bits, ties to even.
RoundTo(M, e) ==
    LET a == Abs(M)
        k == BitLen(a) - Precision
    IN  IF k <= 0 THEN Norm(M, e)
        ELSE LET q == a \div (2 ^ k)
                 r == a % (2 ^ k)
                 h == 2 ^ (k - 1)
                 up == r > h \/ (r = h /\ q % 2 = 1)
             IN  Norm(Sgn(M) * (IF up THEN q + 1 ELSE q), e + k)

\* Exponent of the bit just above the leading bit of a finite non-zero x.
Top(x) == x.e + BitLen(Abs(x.m))

FNeg(x) == IF x.k = "nan" THEN NaN ELSE [x EXCEPT !.m = -x.m]
FAbs(x) == IF x.k = "nan" THEN NaN ELSE [x EXCEPT !.m = Abs(x.m)]

\* x + y
FAdd(x, y) ==
    IF x.k = "nan" \/ y.k = "nan" THEN NaN
    ELSE IF x.k = "inf" /\ y.k = "inf" THEN (IF x.m = y.m THEN x ELSE NaN)
    ELSE IF x.k = "inf" THEN x
    ELSE IF y.k = "inf" THEN y
    ELSE IF x.m = 0 THEN y
    ELSE IF y.m = 0 THEN x
    ELSE IF Top(x) - Top(y) >= Precision + 3 THEN x
    ELSE IF Top(y) - Top(x) >= Precision + 3 THEN y
    ELSE LET e == IF x.e < y.e THEN x.e ELSE y.e
         IN  RoundTo(x.m * 2 ^ (x.e - e) + y.m * 2 ^ (y.e - e), e)

\* x - y
FSub(x, y) == FAdd(x, FNeg(y))

\* x * y
FMul(x, y) ==
    IF x.k = "nan" \/ y.k = "nan" THEN NaN
    ELSE IF x.k = "inf" \/ y.k = "inf"
         THEN (IF x.m = 0 \/ y.m = 0 THEN NaN ELSE Inf(Sgn(x.m) * Sgn(y.m)))
    ELSE RoundTo(x.m * y.m, x.e + y.e)

\* x / y
FDiv(x, y) ==
    IF x.k = "nan" \/ y.k = "nan" THEN NaN
    ELSE IF x.k = "inf" THEN (IF y.k = "inf" THEN NaN
                              ELSE Inf(x.m * (IF y.m < 0 THEN -1 ELSE 1)))
    ELSE IF y.k = "inf" THEN Zero
    ELSE IF y.m = 0 THEN (IF x.m = 0 THEN NaN ELSE Inf(Sgn(x.m)))
    ELSE IF x.m = 0 THEN Zero
    ELSE LET s == Precision + 2 + BitLen(Abs(y.m))
             n == Abs(x.m) * 2 ^ s
             q == n \div Abs(y.m)
             sticky == IF n % Abs(y.m) = 0 THEN 0 ELSE 1
         IN  RoundTo(Sgn(x.m) * Sgn(y.m) * (2 * q + sticky), x.e - y.e - s - 1)

\* The integer part of the square root of n >= 0.
RECURSIVE ISqrt(_)
ISqrt(n) ==
    IF n < 2 THEN n
    ELSE LET s == 2 * ISqrt(n \div 4)
         IN  IF (s + 1) * (s + 1) > n THEN s ELSE s + 1

\* Math.sqrt(x)
FSqrt(x) ==
    IF x.k = "nan" \/ x.m < 0 THEN NaN
    ELSE IF x.k = "inf" \/ x.m = 0 THEN x
    ELSE LET s == 2 * Precision + 4 + (IF (x.e % 2) = 0 THEN 0 ELSE 1)
             n == x.m * 2 ^ s
             q == ISqrt(n)
             sticky == IF q * q = n THEN 0 ELSE 1
         IN  RoundTo(2 * q + sticky, ((x.e - s) \div 2) - 1)

\* x < y (false when either side is NaN)
FLt(x, y) ==
    IF x.k = "nan" \/ y.k = "nan" THEN FALSE
    ELSE IF x.k = "inf" THEN x.m < 0 /\ ~(y.k = "inf" /\ y.m < 0)
    ELSE IF y.k = "inf" THEN y.m > 0
    ELSE IF Sgn(x.m) # Sgn(y.m) THEN Sgn(x.m) < Sgn(y.m)
    ELSE IF x.m = 0 THEN FALSE
    ELSE IF Top(x) # Top(y)
         THEN (IF x.m > 0 THEN Top(x) < Top(y) ELSE Top(x) > Top(y))
    ELSE LET e == IF x.e < y.e THEN x.e ELSE y.e
         IN  x.m * 2 ^ (x.e - e) < y.m * 2 ^ (y.e - e)

FGt(x, y) == FLt(y, x)
FLe(x, y) == x.k # "nan" /\ y.k # "nan" /\ ~FLt(y, x)

\* A small integer as a Number (exact: every literal of the model fits).
FromInt(i) == Norm(i, 0)

\* ------------------------------------------------------------------------
\* JavaScript Date, in whole seconds since the epoch (the source's values are
\* these times 1000; every instant it handles is a whole second).
\* ------------------------------------------------------------------------
oneDay == 86400

\* Days since 1970-01-01 of the proleptic Gregorian date y-(mo+1)-d, months
\* counted from 0 as Date.UTC counts them.
DaysFromCivil(y, mo, d) ==
    LET m == mo + 1
        yy == IF m <= 2 THEN y - 1 ELSE y
        era == yy \div 400
        yoe == yy - era * 400
        mp == IF m > 2 THEN m - 3 ELSE m + 9
        doy == ((153 * mp + 2) \div 5) + d - 1
        doe == yoe * 365 + (yoe \div 4) - (yoe \div 100) + doy
    IN  era * 146097 + doe - 719468

\* Date.UTC(year, month, day)
DateUTC(y, mo, d) == DaysFromCivil(y, mo, d) * oneDay

\* [y, mo, d] of the UTC calendar day holding instant t (mo from 0).
CivilFromInstant(t) ==
    LET z == (t \div oneDay) + 719468
        era == z \div 146097
        doe == z - era * 146097
        yoe == (doe - (doe \div 1460) + (doe \div 36524) - (doe \div 146096)) \div 365
        doy == doe - (365 * yoe + (yoe \div 4) - (yoe \div 100))
        mp == (5 * doy + 2) \div 153
        d == doy - ((153 * mp + 2) \div 5) + 1
        m == IF mp < 10 THEN mp + 3 ELSE mp - 9
        y == yoe + era * 400 + (IF m <= 2 THEN 1 ELSE 0)
    IN  [y |-> y, mo |-> m - 1, d |-> d]

getUTCFullYear(t) == CivilFromInstant(t).y
getUTCMonth(t) == CivilFromInstant(t).mo
getUTCDate(t) == CivilFromInstant(t).d

\* A variant of the week division that rounds down instead of up.
FloorDiv7(n) == n \div 7

\* Math.ceil(n / 7) for an integer n >= 0
CeilDiv7(n) == (n + 6) \div 7

getSimpleWeekNumber(date) ==
    LET yearStart == DateUTC(getUTCFullYear(date), 0, 1)
        currentInstance == DateUTC(getUTCFullYear(date), getUTCMonth(date),
                                   getUTCDate(date))
        diff == currentInstance - yearStart
        dayOfYear == diff \div oneDay
    IN  CeilDiv7(dayOfYear + 1)

\* ------------------------------------------------------------------------
\* ReturnSeries construction: the loop of fetchYahooData over the response's
\* parallel arrays.  A raw row is [ts, open, close]: timestamps[i],
\* quotes.open[i], quotes.close[i]; a price is a Number or Null (JSON null).
\* ------------------------------------------------------------------------
Null == [k |-> "null", m |-> 0, e |-> 0]

\* ToNumber of a price: an arithmetic operator reads null as 0.
ToNumber(v) == IF v = Null THEN Zero ELSE v

\* A variant of the skip test without "open === 0": it lets a zero open
\* through to the division.
SkipRowNullOnly(open, close) == open = Null \/ close = Null

\* open === null || close === null || open === 0
SkipRow(open, close) == open = Null \/ close = Null \/ open = Zero

\* The object pushed for one retained row.
MakeBar(row) ==
    [date |-> row.ts,
     open |-> row.open,
     close |-> row.close,
     weekNumber |-> getSimpleWeekNumber(row.ts),
     weeklyReturn |-> FDiv(FSub(ToNumber(row.close), ToNumber(row.open)),
                           ToNumber(row.open))]

RECURSIVE ProcessLoop(_, _, _)
ProcessLoop(rows, i, processedData) ==
    IF i > Len(rows) THEN processedData
    ELSE IF SkipRow(rows[i].open, rows[i].close)
         THEN ProcessLoop(rows, i + 1, processedData)
    ELSE ProcessLoop(rows, i + 1, Append(processedData, MakeBar(rows[i])))

ProcessRows(rows) == ProcessLoop(rows, 1, <<>>)

\* ------------------------------------------------------------------------
\* ConditionalFilter
\* ------------------------------------------------------------------------
FilterValues == {"all", "after-up", "after-down"}

\* Variants of the selection test in which a previous return of exactly 0
\* counts as an up week, or as a down week.
SelectsNonNegative(filterValue, previousWeekReturn) ==
    \/ filterValue = "after-up" /\ FLe(Zero, previousWeekReturn)
    \/ filterValue = "after-down" /\ FLt(previousWeekReturn, Zero)

SelectsNonPositive(filterValue, previousWeekReturn) ==
    \/ filterValue = "after-up" /\ FGt(previousWeekReturn, Zero)
    \/ filterValue = "after-down" /\ FLe(previousWeekReturn, Zero)

\* Whether data[i] is pushed, given the return of data[i-1].
Selects(filterValue, previousWeekReturn) ==
    \/ filterValue = "after-up" /\ FGt(previousWeekReturn, Zero)
    \/ filterValue = "after-down" /\ FLt(previousWeekReturn, Zero)

\* The loop "for (let i = 1; i < data.length; i++)"; sequences here count
\* from 1, so the source's index i is position i + 1.
RECURSIVE FilterLoop(_, _, _, _)
FilterLoop(data, filterValue, i, filtered) ==
    IF i >= Len(data) THEN filtered
    ELSE IF Selects(filterValue, data[i].weeklyReturn)
         THEN FilterLoop(data, filterValue, i + 1, Append(filtered, data[i + 1]))
    ELSE FilterLoop(data, filterValue, i + 1, filtered)

\* A variant of applyFilter without the early return for "all".
applyFilterLoopOnly(data, filterValue) == FilterLoop(data, filterValue, 1, <<>>)

applyFilter(data, filterValue) ==
    IF filterValue = "all" THEN data
    ELSE FilterLoop(data, filterValue, 1, <<>>)

\* ------------------------------------------------------------------------
\* SeasonalAggregator
\* ------------------------------------------------------------------------
\* returns.reduce((a, b) => a + b, 0)
RECURSIVE SumFrom(_, _, _)
SumFrom(returns, i, acc) ==
    IF i > Len(returns) THEN acc
    ELSE SumFrom(returns, i + 1, FAdd(acc, returns[i]))

Sum(returns) == SumFrom(returns, 1, Zero)

\* returns.filter(r => r > 0)
RECURSIVE Positive(_)
Positive(returns) ==
    IF returns = <<>> THEN <<>>
    ELSE IF FGt(Head(returns), Zero)
         THEN <<Head(returns)>> \o Positive(Tail(returns))
    ELSE Positive(Tail(returns))

\* returns.filter(r => r < 0)
RECURSIVE Negative(_)
Negative(returns) ==
    IF returns = <<>> THEN <<>>
    ELSE IF FLt(Head(returns), Zero)
         THEN <<Head(returns)>> \o Negative(Tail(returns))
    ELSE Negative(Tail(returns))

\* Math.max(...returns), Math.min(...returns)
RECURSIVE MathMax(_, _, _)
MathMax(returns, i, acc) ==
    IF i > Len(returns) THEN acc
    ELSE MathMax(returns, i + 1, IF FGt(returns[i], acc) THEN returns[i] ELSE acc)

RECURSIVE MathMin(_, _, _)
MathMin(returns, i, acc) ==
    IF i > Len(returns) THEN acc
    ELSE MathMin(returns, i + 1, IF FLt(returns[i], acc) THEN returns[i] ELSE acc)

\* returns.map(x => Math.pow(x - avgReturn, 2))
SquaredDeviations(returns, avgReturn) ==
    [i \in DOMAIN returns |->
        FMul(FSub(returns[i], avgReturn), FSub(returns[i], avgReturn))]

\* The weekly periods per year under the square root of the Sharpe ratio.
PeriodsPerYear == 52

\* A variant of the profit factor without the test "losses === 0".
ProfitFactorUnguarded(gains, losses) == FDiv(gains, losses)

ProfitFactor(gains, losses) ==
    IF losses = Zero THEN Inf(1) ELSE FDiv(gains, losses)

SharpeRatio(avgReturn, stdDev) ==
    IF stdDev = Zero THEN Zero
    ELSE FMul(FDiv(avgReturn, stdDev), FSqrt(FromInt(PeriodsPerYear)))

\* The SummaryRow of one week group.
GroupStats(returns) ==
    LET count == Len(returns)
        positiveTrades == Len(Positive(returns))
        winRate == FDiv(FromInt(positiveTrades), FromInt(count))
        sum == Sum(returns)
        avgReturn == FDiv(sum, FromInt(count))
        stdDev == FSqrt(FDiv(Sum(SquaredDeviations(returns, avgReturn)),
                             FromInt(count)))
        gains == Sum(Positive(returns))
        losses == FAbs(Sum(Negative(returns)))
    IN  [count |-> count,
         winRate |-> winRate,
         avgReturn |-> avgReturn,
         profitFactor |-> ProfitFactor(gains, losses),
         sharpeRatio |-> SharpeRatio(avgReturn, stdDev),
         stdDev |-> stdDev,
         maxReturn |-> MathMax(returns, 1, Inf(-1)),
         minReturn |-> MathMin(returns, 1, Inf(1))]

\* A variant of the grouping that creates the group of a week at its first
\* bar without pushing that bar's return.
RECURSIVE GroupReturnsAfter(_, _, _)
GroupReturnsAfter(data, w, created) ==
    IF data = <<>> THEN <<>>
    ELSE IF Head(data).weekNumber # w THEN GroupReturnsAfter(Tail(data), w, created)
    ELSE IF created
         THEN <<Head(data).weeklyReturn>> \o GroupReturnsAfter(Tail(data), w, TRUE)
    ELSE GroupReturnsAfter(Tail(data), w, TRUE)

GroupReturnsWithoutFirst(data, w) == GroupReturnsAfter(data, w, FALSE)

\* weeklyGroups[w].returns: the returns of the bars of week w, in input order.
RECURSIVE GroupReturns(_, _)
GroupReturns(data, w) ==
    IF data = <<>> THEN <<>>
    ELSE IF Head(data).weekNumber = w
         THEN <<Head(data).weeklyReturn>> \o GroupReturns(Tail(data), w)
    ELSE GroupReturns(Tail(data), w)

weeklyGroups(data) ==
    [w \in {data[i].weekNumber : i \in DOMAIN data} |-> GroupReturns(data, w)]

calculateSummaryStatistics(data) ==
    LET groups == weeklyGroups(data)
    IN  [w \in {g \in DOMAIN groups : Len(groups[g]) # 0} |-> GroupStats(groups[w])]

\* ------------------------------------------------------------------------
\* Text: a string is a sequence of one-character strings.
\* ------------------------------------------------------------------------
DigitChars == <<"0", "1", "2", "3", "4", "5", "6", "7", "8", "9">>
IsDigit(c) == \E d \in 1 .. 10 : DigitChars[d] = c
DigitValue(c) == (CHOOSE d \in 1 .. 10 : DigitChars[d] = c) - 1

\* String(n) for an integer n >= 0
RECURSIVE Digits(_)
Digits(n) ==
    IF n < 10 THEN <<DigitChars[n + 1]>>
    ELSE Digits(n \div 10) \o <<DigitChars[(n % 10) + 1]>>

\* The decimal digits of n, zero-filled on the left to width w.
RECURSIVE Pad(_, _)
Pad(n, w) == IF Len(Digits(n)) >= w THEN Digits(n) ELSE <<"0">> \o Pad(n % (10 ^ (w - 1)), w - 1)

\* The integer nearest to |x| * 10^d, the larger one on a tie (Number.toFixed).
ScaledRound(x, d) ==
    LET a == Abs(x.m) * (10 ^ d)
    IN  IF x.e >= 0 THEN a * (2 ^ x.e)
        ELSE IF x.e < -(Precision + 8) THEN 0
        ELSE (a * 2 + 2 ^ (-x.e)) \div (2 ^ (1 - x.e))

\* x.toFixed(d)
toFixed(x, d) ==
    IF x.k = "nan" THEN <<"N", "a", "N">>
    ELSE IF x.k = "inf"
         THEN (IF x.m < 0 THEN <<"-">> ELSE <<>>)
              \o <<"I", "n", "f", "i", "n", "i", "t", "y">>
    ELSE LET n == ScaledRound(x, d)
             text == Digits(n \div (10 ^ d))
                     \o (IF d > 0 THEN <<".">> \o Pad(n % (10 ^ d), d) ELSE <<>>)
         IN  IF x.m < 0 THEN <<"-">> \o text ELSE text

\* date.toISOString().split('T')[0]
ISODate(t) ==
    Pad(getUTCFullYear(t), 4) \o <<"-">> \o Pad(getUTCMonth(t) + 1, 2)
    \o <<"-">> \o Pad(getUTCDate(t), 2)

\* isFinite(x)
isFinite(x) == x.k = "num"

\* ------------------------------------------------------------------------
\* Rendering: a table body is a sequence of rows, a row a sequence of cells.
\* ------------------------------------------------------------------------
\* The text of the profit-factor cell of a group without losses: the three
\* characters U+00E2 U+02C6 U+017E that the literal in the script consists of.
InfinityText == <<"U+00E2", "U+02C6", "U+017E">>

Cell(text, class) == [textContent |-> text, className |-> class]

Hundred == FromInt(100)

SignClass(positive) == IF positive THEN "positive" ELSE "negative"

\* The row populateDetailsTable inserts for bar d.
DetailsRow(d) ==
    << Cell(Digits(d.weekNumber), ""),
       Cell(ISODate(d.date), ""),
       Cell(<<"$">> \o toFixed(d.open, 2), ""),
       Cell(<<"$">> \o toFixed(d.close, 2), ""),
       Cell(toFixed(FMul(d.weeklyReturn, Hundred), 2) \o <<"%">>,
            SignClass(FLe(Zero, d.weeklyReturn))) >>

\* [...data].reverse()
Reverse(data) == [i \in DOMAIN data |-> data[Len(data) + 1 - i]]

populateDetailsTable(body, data) ==
    body \o [i \in DOMAIN data |-> DetailsRow(Reverse(data)[i])]

\* The row populateSummaryTable inserts for week i.
SummaryRow(i, stats) ==
    << Cell(Digits(i), ""),
       Cell(Digits(stats.count), ""),
       Cell(toFixed(FMul(stats.winRate, Hundred), 1) \o <<"%">>,
            SignClass(FLe(Num(1, -1), stats.winRate))),
       Cell(toFixed(FMul(stats.avgReturn, Hundred), 2) \o <<"%">>,
            SignClass(FLe(Zero, stats.avgReturn))),
       Cell(IF isFinite(stats.profitFactor) THEN toFixed(stats.profitFactor, 2)
            ELSE InfinityText, ""),
       Cell(toFixed(stats.sharpeRatio, 2), ""),
       Cell(toFixed(FMul(stats.stdDev, Hundred), 2) \o <<"%">>, ""),
       Cell(toFixed(FMul(stats.maxReturn, Hundred), 2) \o <<"%">>, "positive"),
       Cell(toFixed(FMul(stats.minReturn, Hundred), 2) \o <<"%">>, "negative") >>

\* The last week-of-year key populateSummaryTable looks up.
LastWeek == 53

\* The loop "for (let i = 1; i <= 53; i++)".
RECURSIVE SummaryLoop(_, _, _)
SummaryLoop(body, summaryStats, i) ==
    IF i > LastWeek THEN body
    ELSE IF i \notin DOMAIN summaryStats THEN SummaryLoop(body, summaryStats, i + 1)
    ELSE SummaryLoop(Append(body, SummaryRow(i, summaryStats[i])), summaryStats, i + 1)

populateSummaryTable(body, summaryStats) == SummaryLoop(body, summaryStats, 1)

\* ------------------------------------------------------------------------
\* TableSorter: the click listener makeTableSortable adds to every header.
\* ------------------------------------------------------------------------
\* valA.replace(/[^0-9.-]+/g, "")
Strip(text) == SelectSeq(text, LAMBDA c : IsDigit(c) \/ c = "." \/ c = "-")

\* Length of the run of digits of s that starts at position i.
RECURSIVE DigitRun(_, _)
DigitRun(s, i) ==
    IF i > Len(s) \/ ~IsDigit(s[i]) THEN 0 ELSE 1 + DigitRun(s, i + 1)

\* The number written by the digits s[i .. i + n - 1].
RECURSIVE DigitsValue(_, _, _)
DigitsValue(s, i, n) ==
    IF n = 0 THEN 0
    ELSE DigitsValue(s, i, n - 1) * 10 + DigitValue(s[i + n - 1])

\* parseFloat(s) of a string of digits, "." and "-": the longest prefix that
\* is a decimal literal, as the fraction num / den; NaN when there is none.
parseFloat(s) ==
    LET neg == Len(s) >= 1 /\ s[1] = "-"
        p == IF neg THEN 2 ELSE 1
        ni == DigitRun(s, p)
        dot == p + ni <= Len(s) /\ s[p + ni] = "."
        nf == IF dot THEN DigitRun(s, p + ni + 1) ELSE 0
        mag == DigitsValue(s, p, ni) * (10 ^ nf) + DigitsValue(s, p + ni + 1, nf)
    IN  IF ni = 0 /\ nf = 0 THEN [nan |-> TRUE, num |-> 0, den |-> 1]
        ELSE [nan |-> FALSE, num |-> IF neg THEN -mag ELSE mag, den |-> 10 ^ nf]

isNaN(v) == v.nan

\* The collation rank of a character that occurs in a cell (root collation:
\* punctuation, then symbols, then currency signs, then digits, then letters).
CollationRank(c) ==
    IF IsDigit(c) THEN 10 + DigitValue(c)
    ELSE IF c = "-" THEN 1
    ELSE IF c = "." THEN 2
    ELSE IF c = "%" THEN 3
    ELSE IF c = "U+02C6" THEN 4
    ELSE IF c = "$" THEN 5
    ELSE IF c = "U+00E2" THEN 30
    ELSE 31

\* a.localeCompare(b), as -1, 0 or 1
RECURSIVE localeCompare(_, _)
localeCompare(a, b) ==
    IF a = <<>> THEN (IF b = <<>> THEN 0 ELSE -1)
    ELSE IF b = <<>> THEN 1
    ELSE IF CollationRank(Head(a)) # CollationRank(Head(b))
         THEN Sgn(CollationRank(Head(a)) - CollationRank(Head(b)))
    ELSE localeCompare(Tail(a), Tail(b))

\* The sign of the comparator's result for rows a and b on column index.
Compare(a, b, index, direction) ==
    LET valA == a[index].textContent
        valB == b[index].textContent
        numA == parseFloat(Strip(valA))
        numB == parseFloat(Strip(valB))
    IN  IF ~isNaN(numA) /\ ~isNaN(numB)
        THEN Sgn(numA.num * numB.den - numB.num * numA.den) * direction
        ELSE localeCompare(valA, valB) * direction

\* rows.sort(comparator): Array.prototype.sort is stable.
RECURSIVE InsertRow(_, _, _, _)
InsertRow(sorted, row, index, direction) ==
    IF sorted = <<>> THEN <<row>>
    ELSE IF Compare(sorted[Len(sorted)], row, index, direction) > 0
         THEN Append(InsertRow(SubSeq(sorted, 1, Len(sorted) - 1), row, index,
                               direction),
                     sorted[Len(sorted)])
    ELSE Append(sorted, row)

RECURSIVE SortRows(_, _, _)
SortRows(rows, index, direction) ==
    IF rows = <<>> THEN <<>>
    ELSE InsertRow(SortRows(SubSeq(rows, 1, Len(rows) - 1), index, direction),
                   rows[Len(rows)], index, direction)

\* direction, from whether the clicked header carries sort-asc
Direction(isAsc) == IF isAsc THEN -1 ELSE 1

\* One run of the click listener of header index on a table [rows, classes]:
\* classes[h] is "sort-asc", "sort-desc" or "" for header h.
Listener(table, index) ==
    LET isAsc == table.classes[index] = "sort-asc"
        sortedRows == SortRows(table.rows, index, Direction(isAsc))
    IN  [rows |-> sortedRows,
         classes |-> [h \in DOMAIN table.classes |->
                        IF h # index THEN ""
                        ELSE IF isAsc THEN "sort-desc" ELSE "sort-asc"]]

\* A click on a header runs, in the order they were added, the n listeners
\* that the calls of makeTableSortable have added to it.
RECURSIVE Dispatch(_, _, _)
Dispatch(table, index, n) ==
    IF n = 0 THEN table ELSE Dispatch(Listener(table, index), index, n - 1)

\* ------------------------------------------------------------------------
\* The page: state, messages and the analysis run
\* ------------------------------------------------------------------------
VARIABLES
    tickerInput,        \* tickerInput.value
    filterValue,        \* value of the checked radio of input[name="filter"]
    fullDataSet,        \* the complete, unfiltered bars
    message,            \* messageDiv: [text, arg, type]
    summaryTableBody,   \* rows of #summaryTableBody
    stockDataTableBody, \* rows of #stockDataTableBody
    headerClasses,      \* per table, the sort class of each th
    listeners,          \* per table, the click listeners added to each th
    pending,            \* fetchYahooData calls awaiting their response
    requested,          \* handleFetchRequest calls that reached the fetch
    latestTicker,       \* ticker of the latest of those calls (history)
    rawRows,            \* pipeline: the rows of one response
    filteredData,       \* pipeline: applyFilter's result
    summaryStats,       \* pipeline: calculateSummaryStatistics' result
    pc                  \* pipeline stage; "page" in the page specification

pageVars == <<tickerInput, filterValue, fullDataSet, message, summaryTableBody,
              stockDataTableBody, headerClasses, listeners, pending, requested,
              latestTicker>>
pipeVars == <<rawRows, filteredData, summaryStats, pc>>
vars == <<tickerInput, filterValue, fullDataSet, message, summaryTableBody,
          stockDataTableBody, headerClasses, listeners, pending, requested, latestTicker,
          rawRows, filteredData, summaryStats, pc>>

\* Cells per row of each table (one th per column).
DetailsColumns == 5
SummaryColumns == 9
Tables == {"detailsTable", "summaryTable"}
Columns(table) ==
    IF table = "detailsTable" THEN 1 .. DetailsColumns ELSE 1 .. SummaryColumns

\* displayMessage(msg, type); arg is the text substituted into the template.
displayMessage(msg, arg, type) == [text |-> msg, arg |-> arg, type |-> type]

MsgEnterTicker == displayMessage("Please enter a stock ticker.", <<>>, "error")
MsgFetching(ticker) ==
    displayMessage("Fetching all weekly data for ${ticker}...", ticker, "info")
MsgNoData ==
    displayMessage("No data available. Please fetch data for a ticker.", <<>>, "info")
MsgNoMatch == displayMessage("No data matches the selected filter.", <<>>, "info")
MsgCleared == displayMessage("", <<>>, "")

\* A variant of runAnalysis that returns from an empty dataset without a
\* message.
runAnalysisSilentWhenEmpty(page) ==
    IF Len(page.fullDataSet) = 0 THEN page
    ELSE LET filteredRun == applyFilter(page.fullDataSet, page.filterValue)
         IN  IF Len(filteredRun) = 0
             THEN [page EXCEPT !.message = MsgNoMatch,
                               !.summaryTableBody = <<>>,
                               !.stockDataTableBody = <<>>]
             ELSE [page EXCEPT
                     !.message = MsgCleared,
                     !.stockDataTableBody = populateDetailsTable(<<>>, filteredRun),
                     !.summaryTableBody =
                         populateSummaryTable(<<>>,
                             calculateSummaryStatistics(filteredRun)),
                     !.listeners = [t \in Tables |-> page.listeners[t] + 1]]

\* runAnalysis on the page [fullDataSet, filterValue, message,
\* summaryTableBody, stockDataTableBody, listeners]: the page it leaves.
runAnalysis(page) ==
    IF Len(page.fullDataSet) = 0 THEN [page EXCEPT !.message = MsgNoData]
    ELSE LET filteredRun == applyFilter(page.fullDataSet, page.filterValue)
         IN  IF Len(filteredRun) = 0
             THEN [page EXCEPT !.message = MsgNoMatch,
                               !.summaryTableBody = <<>>,
                               !.stockDataTableBody = <<>>]
             ELSE [page EXCEPT
                     !.message = MsgCleared,
                     !.stockDataTableBody = populateDetailsTable(<<>>, filteredRun),
                     !.summaryTableBody =
                         populateSummaryTable(<<>>,
                             calculateSummaryStatistics(filteredRun)),
                     !.listeners = [t \in Tables |-> page.listeners[t] + 1]]

Page ==
    [fullDataSet |-> fullDataSet, filterValue |-> filterValue,
     message |-> message, summaryTableBody |-> summaryTableBody,
     stockDataTableBody |-> stockDataTableBody, listeners |-> listeners]

\* The page variables take the values of page record p.
SetPage(p) ==
    /\ fullDataSet' = p.fullDataSet
    /\ filterValue' = p.filterValue
    /\ message' = p.message
    /\ summaryTableBody' = p.summaryTableBody
    /\ stockDataTableBody' = p.stockDataTableBody
    /\ listeners' = p.listeners

\* ------------------------------------------------------------------------
\* The page: inputs
\* ------------------------------------------------------------------------
\* Most handleFetchRequest calls that reach the fetch, and most click
\* listeners a header collects, in one behaviour.
MaxFetches == 2
MaxListeners == 2

\* What tickerInput may hold.
TickerInputs == {<<" ">>, <<"a">>, <<"B", " ">>}

\* The headers the user clicks on the page: date and open price of the details
\* table, profit factor of the summary table.
ClickedColumns(table) == IF table = "detailsTable" THEN {2, 3} ELSE {5}

\* value.trim()
RECURSIVE Trim(_)
Trim(v) ==
    IF v = <<>> THEN v
    ELSE IF Head(v) = " " THEN Trim(Tail(v))
    ELSE IF v[Len(v)] = " " THEN Trim(SubSeq(v, 1, Len(v) - 1))
    ELSE v

\* value.toUpperCase()
ToUpperCase(v) ==
    [i \in DOMAIN v |-> IF v[i] = "a" THEN "A" ELSE IF v[i] = "b" THEN "B" ELSE v[i]]

Row(ts, open, close) == [ts |-> ts, open |-> open, close |-> close]

\* The weekly history the data provider holds for a ticker: three weeks of
\* one year for A (returns +, 0, -), two years with a null week for B.
History(ticker) ==
    IF ticker = <<"A">>
    THEN << Row(DateUTC(2021, 0, 4) + 14400, FromInt(10), FromInt(12)),
            Row(DateUTC(2021, 0, 11) + 14400, Num(5, -1), Num(5, -1)),
            Row(DateUTC(2021, 0, 18) + 14400, FromInt(100), FromInt(50)) >>
    ELSE << Row(DateUTC(2022, 0, 3) + 14400, FromInt(2), FromInt(1)),
            Row(DateUTC(2022, 0, 10) + 14400, Null, Null),
            Row(DateUTC(2023, 0, 2) + 14400, FromInt(1), FromInt(12)) >>

\* What a fetch of a ticker may come back with: the rows of its history, a
\* result without timestamps, a proxy failure, or an error from the provider.
Responses(ticker) ==
    { [kind |-> "rows", rows |-> History(ticker)],
      [kind |-> "no-timestamps", rows |-> <<>>],
      [kind |-> "proxy-error", rows |-> <<>>],
      [kind |-> "yahoo-error", rows |-> <<>>] }

\* error.message of the Error a failed response makes fetchYahooData throw.
ErrorMessage(response) ==
    IF response.kind = "proxy-error"
    THEN displayMessage("Proxy server error: ${response.status}", Digits(500), "error")
    ELSE displayMessage("Yahoo Finance error: ${chartData.chart.error.description}",
                        <<"Not Found">>, "error")

\* What fetchYahooData returns for a response that does not throw.
fetchYahooData(response) ==
    IF response.kind = "no-timestamps" THEN <<>> ELSE ProcessRows(response.rows)

\* ------------------------------------------------------------------------
\* The page: handlers
\* ------------------------------------------------------------------------
\* handleFetchRequest up to its await: the page it leaves, and whether the
\* fetch was issued.
StartFetch(page, input) ==
    LET ticker == ToUpperCase(Trim(input))
    IN  IF ticker = <<>>
        THEN [page |-> [page EXCEPT !.message = MsgEnterTicker],
              ticker |-> ticker, issued |-> FALSE]
        ELSE [page |-> [page EXCEPT !.message = MsgFetching(ticker),
                                    !.fullDataSet = <<>>],
              ticker |-> ticker, issued |-> TRUE]

\* handleFetchRequest after its await: the try block's remainder or the catch.
FinishFetch(page, response) ==
    IF response.kind \in {"proxy-error", "yahoo-error"}
    THEN [page EXCEPT !.message = ErrorMessage(response)]
    ELSE runAnalysis([page EXCEPT !.fullDataSet = fetchYahooData(response)])

\* The page before the script runs: nothing fetched, nothing rendered.
BlankPage(filter) ==
    [fullDataSet |-> <<>>, filterValue |-> filter, message |-> MsgCleared,
     summaryTableBody |-> <<>>, stockDataTableBody |-> <<>>,
     listeners |-> [t \in Tables |-> 0]]

\* DOMContentLoaded: the listeners are attached and handleFetchRequest runs
\* once, with whatever the ticker field and the filter radios start as.
Init ==
    \E input \in TickerInputs, filter \in FilterValues :
        LET start == StartFetch(BlankPage(filter), input)
        IN  /\ tickerInput = input
            /\ fullDataSet = start.page.fullDataSet
            /\ filterValue = start.page.filterValue
            /\ message = start.page.message
            /\ summaryTableBody = start.page.summaryTableBody
            /\ stockDataTableBody = start.page.stockDataTableBody
            /\ listeners = start.page.listeners
            /\ headerClasses = [t \in Tables |-> [h \in Columns(t) |-> ""]]
            /\ requested = IF start.issued THEN 1 ELSE 0
            /\ latestTicker = start.ticker
            /\ pending = IF start.issued
                         THEN {[id |-> 1, ticker |-> start.ticker]} ELSE {}
            /\ rawRows = <<>>
            /\ filteredData = <<>>
            /\ summaryStats = <<>>
            /\ pc = "page"

\* The user edits the ticker field.
EditTicker(input) ==
    /\ pc = "page"
    /\ input # tickerInput
    /\ tickerInput' = input
    /\ UNCHANGED <<filterValue, fullDataSet, message, summaryTableBody,
                   stockDataTableBody, headerClasses, listeners, pending,
                   requested, latestTicker, pipeVars>>

\* A click on the Analyze button: handleFetchRequest up to its await.
ClickAnalyze ==
    LET start == StartFetch(Page, tickerInput)
    IN  /\ pc = "page"
        /\ start.issued => requested < MaxFetches
        /\ SetPage(start.page)
        /\ requested' = IF start.issued THEN requested + 1 ELSE requested
        /\ latestTicker' = IF start.issued THEN start.ticker ELSE latestTicker
        /\ pending' = IF start.issued
                      THEN pending \cup {[id |-> requested + 1, ticker |-> start.ticker]}
                      ELSE pending
        /\ UNCHANGED <<tickerInput, headerClasses, pipeVars>>

\* The response of a pending fetch arrives: handleFetchRequest resumes.
FetchSettles(request, response) ==
    LET after == FinishFetch(Page, response)
    IN  /\ pc = "page"
        /\ request \in pending
        /\ response \in Responses(request.ticker)
        /\ \A t \in Tables : after.listeners[t] <= MaxListeners
        /\ SetPage(after)
        /\ pending' = pending \ {request}
        /\ UNCHANGED <<tickerInput, headerClasses, requested, latestTicker, pipeVars>>

\* The user checks another filter radio: its change event runs runAnalysis.
ChangeFilter(filter) ==
    LET after == runAnalysis([Page EXCEPT !.filterValue = filter])
    IN  /\ pc = "page"
        /\ filter # filterValue
        /\ \A t \in Tables : after.listeners[t] <= MaxListeners
        /\ SetPage(after)
        /\ UNCHANGED <<tickerInput, headerClasses, pending, requested, latestTicker, pipeVars>>

TableBody(table) ==
    IF table = "detailsTable" THEN stockDataTableBody ELSE summaryTableBody

\* The click event of header index of a table: every listener on it runs.
HeaderClick(table, index) ==
    LET after == Dispatch([rows |-> TableBody(table),
                           classes |-> headerClasses[table]],
                          index, listeners[table])
    IN  /\ listeners[table] > 0
        /\ headerClasses' = [headerClasses EXCEPT ![table] = after.classes]
        /\ IF table = "detailsTable"
           THEN stockDataTableBody' = after.rows /\ UNCHANGED summaryTableBody
           ELSE summaryTableBody' = after.rows /\ UNCHANGED stockDataTableBody
        /\ UNCHANGED <<tickerInput, filterValue, fullDataSet, message, listeners,
                       pending, requested, latestTicker, rawRows, filteredData, summaryStats>>

\* The user clicks a header of the page.
ClickHeader(table, index) ==
    /\ pc = "page"
    /\ HeaderClick(table, index)
    /\ UNCHANGED pc

Next ==
    \/ \E input \in TickerInputs : EditTicker(input)
    \/ ClickAnalyze
    \/ \E request \in pending : \E response \in Responses(request.ticker) :
           FetchSettles(request, response)
    \/ \E filter \in FilterValues : ChangeFilter(filter)
    \/ \E table \in Tables : \E index \in ClickedColumns(table) :
           ClickHeader(table, index)

Spec == Init /\ [][Next]_vars

\* ------------------------------------------------------------------------
\* The pipeline on its own: one response's rows go through the construction
\* of the return series, the filter and the aggregation, a stage per step.
\* ------------------------------------------------------------------------
\* Chronological timestamps a series draws from: weeks 1 and 53 of 2021,
\* week 1 of 2022 and of 2023, week 53 of 2024.
SeriesDates ==
    << DateUTC(2021, 0, 4) + 14400, DateUTC(2021, 11, 31) + 14400,
       DateUTC(2022, 0, 3) + 14400, DateUTC(2023, 0, 2) + 14400,
       DateUTC(2024, 11, 30) + 14400 >>

\* [open, close] of a raw row: a missing open, a missing close, a zero open,
\* and returns 0, -1/2 and 11.
Quotes ==
    { <<Null, FromInt(1)>>, <<FromInt(1), Null>>, <<Zero, FromInt(1)>>,
      <<FromInt(1), FromInt(1)>>, <<FromInt(2), FromInt(1)>>,
      <<FromInt(1), FromInt(12)>> }

\* The elements of a set of integers, ascending.
RECURSIVE Ascending(_)
Ascending(S) ==
    IF S = {} THEN <<>>
    ELSE LET least == CHOOSE x \in S : \A y \in S : x <= y
         IN  <<least>> \o Ascending(S \ {least})

\* The series of at most n rows with increasing timestamps and quotes of Q.
Series(n, Q) ==
    UNION { { [i \in 1 .. Cardinality(D) |->
                  Row(SeriesDates[Ascending(D)[i]], q[i][1], q[i][2])]
              : q \in [1 .. Cardinality(D) -> Q] }
            : D \in {E \in SUBSET (DOMAIN SeriesDates) : Cardinality(E) <= n} }

\* The page as it is before anything ran, for the stage-wise specifications.
Untouched ==
    /\ tickerInput = <<>>
    /\ filterValue = "all"
    /\ fullDataSet = <<>>
    /\ message = MsgCleared
    /\ summaryTableBody = <<>>
    /\ stockDataTableBody = <<>>
    /\ headerClasses = [t \in Tables |-> [h \in Columns(t) |-> ""]]
    /\ listeners = [t \in Tables |-> 0]
    /\ pending = {}
    /\ requested = 0
    /\ latestTicker = <<>>
    /\ filteredData = <<>>
    /\ summaryStats = <<>>

InitPipeline ==
    /\ rawRows \in Series(MaxRows, Quotes)
    /\ Untouched
    /\ pc = "fetched"

\* fetchYahooData's loop builds the bars.
Construct ==
    /\ pc = "fetched"
    /\ fullDataSet' = ProcessRows(rawRows)
    /\ pc' = "constructed"
    /\ UNCHANGED <<tickerInput, filterValue, message, summaryTableBody,
                   stockDataTableBody, headerClasses, listeners, pending,
                   requested, latestTicker, rawRows, filteredData, summaryStats>>

\* applyFilter under one of the three radio values.
Filter(filter) ==
    /\ pc = "constructed"
    /\ filterValue' = filter
    /\ filteredData' = applyFilter(fullDataSet, filter)
    /\ pc' = "filtered"
    /\ UNCHANGED <<tickerInput, fullDataSet, message, summaryTableBody,
                   stockDataTableBody, headerClasses, listeners, pending,
                   requested, latestTicker, rawRows, summaryStats>>

\* calculateSummaryStatistics on the filtered bars.
Aggregate ==
    /\ pc = "filtered"
    /\ summaryStats' = calculateSummaryStatistics(filteredData)
    /\ pc' = "aggregated"
    /\ UNCHANGED <<tickerInput, filterValue, fullDataSet, message,
                   summaryTableBody, stockDataTableBody, headerClasses,
                   listeners, pending, requested, latestTicker, rawRows, filteredData>>

NextPipeline ==
    \/ Construct
    \/ \E filter \in FilterValues : Filter(filter)
    \/ Aggregate

SpecPipeline == InitPipeline /\ [][NextPipeline]_vars

\* ------------------------------------------------------------------------
\* Properties of the pipeline (checked under SpecPipeline)
\* ------------------------------------------------------------------------
\* The elements of seq at the positions of I, in ascending position.
Pick(seq, I) == [k \in 1 .. Cardinality(I) |-> seq[Ascending(I)[k]]]

\* Positions of bars (from the second on) whose predecessor's return is
\* positive, negative, exactly zero.
AfterUp(bars) == {i \in 2 .. Len(bars) : bars[i - 1].weeklyReturn.m > 0}
AfterDown(bars) == {i \in 2 .. Len(bars) : bars[i - 1].weeklyReturn.m < 0}
AfterFlat(bars) == {i \in 2 .. Len(bars) : bars[i - 1].weeklyReturn.m = 0}

\* C1: under after-up (after-down) applyFilter returns exactly the bars, from
\* the second on, whose predecessor's return is > 0 (< 0), in their original
\* order; the first bar and the bars after a return of exactly 0 are left out.
C1_FilterKeepsBarsAfterMatchingWeek ==
    pc \in {"filtered", "aggregated"} =>
        /\ filterValue = "after-up" =>
               filteredData = Pick(fullDataSet, AfterUp(fullDataSet))
        /\ filterValue = "after-down" =>
               filteredData = Pick(fullDataSet, AfterDown(fullDataSet))

C1_Witness ==
    /\ pc = "filtered"
    /\ filterValue = "after-up"
    /\ Len(fullDataSet) = 4
    /\ AfterFlat(fullDataSet) # {}
    /\ AfterDown(fullDataSet) # {}
    /\ Len(filteredData) = 1

\* The rows of the response that carry an open, a close and a non-zero open.
Retained(rows) ==
    {i \in DOMAIN rows : /\ rows[i].open.k = "num"
                         /\ rows[i].close.k = "num"
                         /\ rows[i].open.m # 0}

\* The integer a price of the series stands for.
PriceValue(x) == x.m * (2 ^ x.e)

\* C4: the return series holds one bar, in input order, for exactly the rows
\* with an open, a close and a non-zero open, and every bar's weeklyReturn is
\* a finite number with the sign of (close - open) / open.
C4_BarsOnlyFromCompleteRows ==
    pc # "fetched" =>
        LET kept == Ascending(Retained(rawRows))
        IN  /\ Len(fullDataSet) = Len(kept)
            /\ \A k \in DOMAIN fullDataSet :
                   LET bar == fullDataSet[k]
                       row == rawRows[kept[k]]
                   IN  /\ bar.date = row.ts
                       /\ bar.open = row.open
                       /\ bar.close = row.close
                       /\ bar.weeklyReturn.k = "num"
                       /\ Sgn(bar.weeklyReturn.m) =
                              Sgn(PriceValue(row.close) - PriceValue(row.open))
                              * Sgn(row.open.m)

C4_Witness ==
    /\ pc = "constructed"
    /\ Len(rawRows) = 4
    /\ \E i \in DOMAIN rawRows : rawRows[i].open = Null
    /\ \E i \in DOMAIN rawRows : rawRows[i].close = Null
    /\ \E i \in DOMAIN rawRows : rawRows[i].open = Zero
    /\ Len(fullDataSet) = 1

\* Positions of bars that applyFilter's result holds (bars of one series
\* differ in their dates).
Kept(bars, result) ==
    {i \in DOMAIN bars : \E k \in DOMAIN result : result[k] = bars[i]}

\* C6: the positions kept by after-up, those kept by after-down and those
\* that follow a return of exactly 0 are pairwise disjoint and together are
\* every position of bars[1:], each once.
C6_FilterModesPartitionTail ==
    pc # "fetched" =>
        LET up == applyFilter(fullDataSet, "after-up")
            down == applyFilter(fullDataSet, "after-down")
            U == Kept(fullDataSet, up)
            D == Kept(fullDataSet, down)
            Z == AfterFlat(fullDataSet)
        IN  /\ U \cap D = {}
            /\ U \cap Z = {}
            /\ D \cap Z = {}
            /\ U \cup D \cup Z = 2 .. Len(fullDataSet)
            /\ Len(up) = Cardinality(U)
            /\ Len(down) = Cardinality(D)

C6_Witness ==
    /\ pc = "constructed"
    /\ Kept(fullDataSet, applyFilter(fullDataSet, "after-up")) # {}
    /\ Kept(fullDataSet, applyFilter(fullDataSet, "after-down")) # {}
    /\ AfterFlat(fullDataSet) # {}

\* The returns of the aggregated bars of week w, in input order.
Members(w) ==
    LET at == {i \in DOMAIN filteredData : filteredData[i].weekNumber = w}
    IN  [k \in 1 .. Cardinality(at) |-> filteredData[Ascending(at)[k]].weeklyReturn]

RECURSIVE TotalCount(_, _)
TotalCount(stats, W) ==
    IF W = {} THEN 0
    ELSE LET w == CHOOSE x \in W : TRUE
         IN  stats[w].count + TotalCount(stats, W \ {w})

\* C7: there is a SummaryRow for exactly the week numbers of the input, its
\* count is the number of input bars of that week, and the counts add up to
\* the length of the input.
C7_OneRowPerPopulatedWeek ==
    pc = "aggregated" =>
        /\ DOMAIN summaryStats =
               {filteredData[i].weekNumber : i \in DOMAIN filteredData}
        /\ \A w \in DOMAIN summaryStats :
               summaryStats[w].count =
                   Cardinality({i \in DOMAIN filteredData :
                                    filteredData[i].weekNumber = w})
        /\ TotalCount(summaryStats, DOMAIN summaryStats) = Len(filteredData)

C7_Witness ==
    /\ pc = "aggregated"
    /\ Len(filteredData) = 4
    /\ DOMAIN summaryStats = {1, 53}
    /\ summaryStats[1].count = 3
    /\ summaryStats[53].count = 1

\* C8: profitFactor is +Infinity exactly when the negative returns of the
\* group sum to 0 (no return is negative), otherwise the sum of the positive
\* returns over the magnitude of the sum of the negative ones; it is never
\* NaN and never negative.
C8_ProfitFactorInfiniteWithoutLosses ==
    pc = "aggregated" =>
        \A w \in DOMAIN summaryStats :
            LET gained == SelectSeq(Members(w), LAMBDA r : r.m > 0)
                lost == SelectSeq(Members(w), LAMBDA r : r.m < 0)
                pf == summaryStats[w].profitFactor
            IN  /\ pf = Inf(1) <=> Sum(lost) = Zero
                /\ pf = Inf(1) <=> lost = <<>>
                /\ lost # <<>> => pf = FDiv(Sum(gained), FAbs(Sum(lost)))
                /\ pf.k # "nan"
                /\ pf.m >= 0

C8_Witness ==
    /\ pc = "aggregated"
    /\ \E w \in DOMAIN summaryStats :
           /\ \A i \in DOMAIN Members(w) : Members(w)[i] = Zero
           /\ summaryStats[w].profitFactor = Inf(1)
    /\ \E w \in DOMAIN summaryStats :
           /\ summaryStats[w].profitFactor.k = "num"
           /\ summaryStats[w].profitFactor.m > 0

\* C9: every SummaryRow has minReturn <= avgReturn <= maxReturn,
\* 0 <= winRate <= 1, stdDev >= 0 and count >= 1.
C9_SummaryRowWithinBounds ==
    pc = "aggregated" =>
        \A w \in DOMAIN summaryStats :
            LET row == summaryStats[w]
            IN  /\ FLe(row.minReturn, row.avgReturn)
                /\ FLe(row.avgReturn, row.maxReturn)
                /\ FLe(Zero, row.winRate)
                /\ FLe(row.winRate, FromInt(1))
                /\ FLe(Zero, row.stdDev)
                /\ row.count >= 1

\* C10: a group whose returns are all equal has sharpeRatio 0, and a group
\* with stdDev > 0 has a finite sharpeRatio of the sign of avgReturn.
C10_SharpeZeroWithoutVariance ==
    pc = "aggregated" =>
        \A w \in DOMAIN summaryStats :
            LET row == summaryStats[w]
                R == Members(w)
            IN  /\ (\A i, j \in DOMAIN R : R[i] = R[j]) => row.sharpeRatio = Zero
                /\ row.stdDev.m > 0 =>
                       /\ row.sharpeRatio.k = "num"
                       /\ Sgn(row.sharpeRatio.m) = Sgn(row.avgReturn.m)

\* ------------------------------------------------------------------------
\* Properties of the page (checked under Spec)
\* ------------------------------------------------------------------------
\* A step in which runAnalysis ran: a filter change, or a fetch whose
\* response did not throw.
RanAnalysis ==
    \/ \E filter \in FilterValues : ChangeFilter(filter)
    \/ \E request \in pending : \E response \in Responses(request.ticker) :
           /\ response.kind \in {"rows", "no-timestamps"}
           /\ FetchSettles(request, response)

\* No bar of the dataset passes the checked filter.
NothingMatches(bars, filter) ==
    \/ filter = "after-up" /\ AfterUp(bars) = {}
    \/ filter = "after-down" /\ AfterDown(bars) = {}

SortedBy(rows, index, direction) ==
    \A i \in 1 .. Len(rows) - 1 : Compare(rows[i], rows[i + 1], index, direction) <= 0

RowsAfter(table) ==
    IF table = "detailsTable" THEN stockDataTableBody' ELSE summaryTableBody'

\* C2: one click on the header marked ascending leaves the rows descending
\* by that column, one click on the header marked descending leaves them
\* ascending, and one click on any other header leaves them ascending by
\* that column with that header alone marked ascending.
C2_ClickTogglesDirection ==
    [][\A table \in Tables : \A index \in ClickedColumns(table) :
          ClickHeader(table, index) =>
              LET mark == headerClasses[table][index]
                  marks == headerClasses'[table]
              IN  /\ mark = "sort-asc" =>
                         /\ SortedBy(RowsAfter(table), index, -1)
                         /\ marks[index] = "sort-desc"
                  /\ mark = "sort-desc" =>
                         /\ SortedBy(RowsAfter(table), index, 1)
                         /\ marks[index] = "sort-asc"
                  /\ mark = "" =>
                         /\ SortedBy(RowsAfter(table), index, 1)
                         /\ marks = [h \in Columns(table) |->
                                        IF h = index THEN "sort-asc" ELSE ""]]_vars

\* ------------------------------------------------------------------------
\* One sort of a freshly rendered page: a response is rendered under the
\* filter "all", then one header, any of either table, is clicked once.
\* ------------------------------------------------------------------------
MaxSortRows == 3

\* [open, close] of the rows: returns 1/5, 0, -1/2 and 11.
SortQuotes ==
    { <<FromInt(10), FromInt(12)>>, <<Num(5, -1), Num(5, -1)>>,
      <<FromInt(100), FromInt(50)>>, <<FromInt(1), FromInt(12)>> }

InitSort ==
    /\ rawRows \in Series(MaxSortRows, SortQuotes)
    /\ Untouched
    /\ pc = "loaded"

\* The response arrives on the blank page: handleFetchRequest's remainder.
Render ==
    /\ pc = "loaded"
    /\ SetPage(FinishFetch(Page, [kind |-> "rows", rows |-> rawRows]))
    /\ pc' = "rendered"
    /\ UNCHANGED <<tickerInput, headerClasses, pending, requested, latestTicker, rawRows,
                   filteredData, summaryStats>>

SortClick(table, index) ==
    /\ pc = "rendered"
    /\ HeaderClick(table, index)
    /\ pc' = "sorted"

NextSort ==
    \/ Render
    \/ \E table \in Tables : \E index \in Columns(table) : SortClick(table, index)

SpecSort == InitSort /\ [][NextSort]_vars

\* The bar a details row was rendered from, the week a summary row is of.
BarOf(row) ==
    CHOOSE i \in DOMAIN fullDataSet :
        ISODate(fullDataSet[i].date) = row[2].textContent
WeekOf(row) ==
    CHOOSE w \in 1 .. LastWeek : Digits(w) = row[1].textContent

\* The value under column index of row a of the table is at most that of b.
ValueAtMost(table, index, a, b) ==
    IF table = "detailsTable"
    THEN LET x == fullDataSet[BarOf(a)]
             y == fullDataSet[BarOf(b)]
         IN  CASE index = 1 -> x.weekNumber <= y.weekNumber
               [] index = 2 -> x.date <= y.date
               [] index = 3 -> FLe(x.open, y.open)
               [] index = 4 -> FLe(x.close, y.close)
               [] OTHER -> FLe(x.weeklyReturn, y.weeklyReturn)
    ELSE LET stats == calculateSummaryStatistics(fullDataSet)
             x == stats[WeekOf(a)]
             y == stats[WeekOf(b)]
         IN  CASE index = 1 -> WeekOf(a) <= WeekOf(b)
               [] index = 2 -> x.count <= y.count
               [] index = 3 -> FLe(x.winRate, y.winRate)
               [] index = 4 -> FLe(x.avgReturn, y.avgReturn)
               [] index = 5 -> FLe(x.profitFactor, y.profitFactor)
               [] index = 6 -> FLe(x.sharpeRatio, y.sharpeRatio)
               [] index = 7 -> FLe(x.stdDev, y.stdDev)
               [] index = 8 -> FLe(x.maxReturn, y.maxReturn)
               [] OTHER -> FLe(x.minReturn, y.minReturn)

OrderedByValue(table, index) ==
    LET rows == TableBody(table)
    IN  \A i \in 1 .. Len(rows) - 1 : ValueAtMost(table, index, rows[i], rows[i + 1])

\* C3: after an ascending sort by a column the rows are in the order of the
\* values under that column, for every column of either table: prices in
\* numeric order, dates in chronological order.
C3_AscendingSortOrdersByValue ==
    pc = "sorted" =>
        \A table \in Tables : \A index \in Columns(table) :
            headerClasses[table][index] = "sort-asc" => OrderedByValue(table, index)

\* ------------------------------------------------------------------------
\* The aggregator on rearranged input: the bars of one response are handed
\* to calculateSummaryStatistics in any order.
\* ------------------------------------------------------------------------
MaxOrderRows == 3

\* [open, close] of the rows: returns 16, 1/2 and -1/2.
OrderQuotes ==
    { <<FromInt(1), FromInt(17)>>, <<FromInt(2), FromInt(3)>>,
      <<FromInt(2), FromInt(1)>> }

\* The rearrangements of the positions 1 .. n.
Orders(n) ==
    {f \in [1 .. n -> 1 .. n] : \A i, j \in 1 .. n : f[i] = f[j] => i = j}

\* The bars in the order f.
Permuted(bars, f) == [i \in DOMAIN bars |-> bars[f[i]]]

InitOrder ==
    /\ rawRows \in Series(MaxOrderRows, OrderQuotes)
    /\ Untouched
    /\ pc = "fetched"

\* calculateSummaryStatistics on the bars in the order f.
AggregateInOrder(f) ==
    /\ pc = "constructed"
    /\ filteredData' = Permuted(fullDataSet, f)
    /\ summaryStats' = calculateSummaryStatistics(filteredData')
    /\ pc' = "aggregated"
    /\ UNCHANGED <<tickerInput, filterValue, fullDataSet, message,
                   summaryTableBody, stockDataTableBody, headerClasses,
                   listeners, pending, requested, latestTicker, rawRows>>

NextOrder ==
    \/ Construct
    \/ \E f \in Orders(Len(fullDataSet)) : AggregateInOrder(f)

SpecOrder == InitOrder /\ [][NextOrder]_vars

\* C11: the aggregation of the bars in any order yields, for every week, the
\* same SummaryRow as the aggregation of the bars in the order they came.
C11_AggregateIgnoresInputOrder ==
    pc = "aggregated" => summaryStats = calculateSummaryStatistics(fullDataSet)

\* ------------------------------------------------------------------------
\* The week number on its own: a response of one row is constructed, for
\* every day of some years and several times of the day.
\* ------------------------------------------------------------------------
\* The first year the fetch asks for (period1 = 0), a leap century, a common
\* year, a leap year and the last whole year of 32-bit epoch seconds.
WeekYears == {1970, 2000, 2023, 2024, 2037}

\* Seconds into the UTC day: midnight, 04:00 and the last second.
SecondsOfDay == {0, 14400, 86399}

IsLeap(y) == (y % 4 = 0 /\ y % 100 # 0) \/ y % 400 = 0
DaysIn(y) == IF IsLeap(y) THEN 366 ELSE 365

\* Days from 1970-01-01 to the first of January of year y >= 1970.
RECURSIVE YearStartDay(_)
YearStartDay(y) == IF y <= 1970 THEN 0 ELSE YearStartDay(y - 1) + DaysIn(y - 1)

WeekInstants ==
    UNION { { (YearStartDay(y) + n) * oneDay + s : n \in 0 .. DaysIn(y) - 1,
                                                    s \in SecondsOfDay }
            : y \in WeekYears }

InitWeek ==
    /\ rawRows \in { <<Row(t, FromInt(1), FromInt(1))>> : t \in WeekInstants }
    /\ Untouched
    /\ pc = "fetched"

NextWeek == Construct

SpecWeek == InitWeek /\ [][NextWeek]_vars

\* The 0-based day of its UTC year of instant t, by counting whole years.
YearOf(t) ==
    CHOOSE y \in WeekYears :
        /\ YearStartDay(y) * oneDay <= t
        /\ t < YearStartDay(y + 1) * oneDay
DayOfYear(t) == (t \div oneDay) - YearStartDay(YearOf(t))

\* C12: the week number of a bar is the least integer not below
\* (dayOfYear + 1) / 7 for the 0-based UTC day of the year of its date; it
\* lies in 1 .. 53 and is 1 exactly on the first seven days of the year.
C12_WeekNumberOfDayOfYear ==
    pc = "constructed" =>
        LET bar == fullDataSet[1]
            day == DayOfYear(bar.date)
            week == bar.weekNumber
        IN  /\ Len(fullDataSet) = 1
            /\ 7 * (week - 1) < day + 1
            /\ day + 1 <= 7 * week
            /\ week \in 1 .. 53
            /\ week = 1 <=> day <= 6

\* The last second of the 31st of December of a leap year falls in week 53.
C12_Witness ==
    /\ pc = "constructed"
    /\ IsLeap(YearOf(fullDataSet[1].date))
    /\ DayOfYear(fullDataSet[1].date) = 365
    /\ fullDataSet[1].date % oneDay = 86399
    /\ fullDataSet[1].weekNumber = 53

\* ------------------------------------------------------------------------
\* The filter "all" (checked under SpecPipeline)
\* ------------------------------------------------------------------------
\* C13: under the filter "all" applyFilter returns the bars it was given:
\* the same elements in the same order, the first bar among them.
C13_FilterAllReturnsInput ==
    (pc \in {"filtered", "aggregated"} /\ filterValue = "all") =>
        /\ Len(filteredData) = Len(fullDataSet)
        /\ \A i \in DOMAIN fullDataSet : filteredData[i] = fullDataSet[i]
        /\ filteredData = fullDataSet

C13_Witness ==
    /\ pc = "filtered"
    /\ filterValue = "all"
    /\ Len(fullDataSet) = MaxRows
    /\ filteredData[1] = fullDataSet[1]
    /\ AfterFlat(fullDataSet) # {}
    /\ AfterDown(fullDataSet) # {}

\* ------------------------------------------------------------------------
\* Overlapping fetches (checked under Spec)
\* ------------------------------------------------------------------------
\* What a fetch of the ticker can store: the bars of a response that did not
\* throw; a fetch that threw leaves the dataset as handleFetchRequest
\* cleared it.
Results(ticker) ==
    {<<>>} \cup { fetchYahooData(response) :
                    response \in {r \in Responses(ticker) :
                                     r.kind \in {"rows", "no-timestamps"}} }

\* C14: once every fetch has completed, the stored dataset is the result of
\* one fetch of the most recently requested ticker, and the details rows of a
\* stored dataset are rows of that ticker's bars.
C14_LatestRequestWins ==
    (pending = {} /\ requested >= 1) =>
        /\ fullDataSet \in Results(latestTicker)
        /\ fullDataSet # <<>> =>
               \A i \in DOMAIN stockDataTableBody :
                   \E bars \in Results(latestTicker) : \E j \in DOMAIN bars :
                       stockDataTableBody[i] = DetailsRow(bars[j])

\* ------------------------------------------------------------------------
\* The tables against the dataset (checked under Spec)
\* ------------------------------------------------------------------------
\* The rows of a table body, whatever their order.
RowSet(body) == {body[i] : i \in DOMAIN body}

\* C15: while no fetch is in flight, the details and summary tables hold
\* exactly the rows of the current dataset under the checked filter, in some
\* sort order; with an empty dataset they hold none.
C15_TablesShowCurrentDataset ==
    pending = {} =>
        LET shown == applyFilter(fullDataSet, filterValue)
            details == populateDetailsTable(<<>>, shown)
            summary == populateSummaryTable(<<>>, calculateSummaryStatistics(shown))
        IN  /\ Len(stockDataTableBody) = Len(details)
            /\ RowSet(stockDataTableBody) = RowSet(details)
            /\ Len(summaryTableBody) = Len(summary)
            /\ RowSet(summaryTableBody) = RowSet(summary)
====
